---------------------------- MODULE Spec2Model ----------------------------
(***************************************************************************)
(* CapsuleOS 3D interface: the client-side graph state (nodes and lattice  *)
(* constraints), its synchronisation with one Firestore document, and the  *)
(* derivation of the rendered line list.                                   *)
(*                                                                         *)
(* The repository holds several variants of the same App component.  The   *)
(* variable `variant` says which one a behaviour is of:                    *)
(*   "p013"   src/unnamed/part_013  remote sync, spawn and RAG ingestion   *)
(*   "p004"   src/unnamed/part_004  remote sync, single selection          *)
(*   "p008"   src/unnamed/part_008  remote sync, earlier listener          *)
(*   "p010"   src/unnamed/part_010  part_013's sync with a selection set   *)
(*   "p005"   src/unnamed/part_005  the RAG query and its fetch with       *)
(*            retries                                                      *)
(*   "appjsx" src/src/App.jsx:368   single selection read from a closure   *)
(*   "local"  src/src/App.jsx:117   local graph, random existing anchor    *)
(*   "p003"   src/unnamed/part_003  local graph, anchor 'manifold'         *)
(*   "derive" the line derivation alone, on enumerated inputs              *)
(*                                                                         *)
(* React is modelled by its contract: the useState cells hold the current  *)
(* values, `view` holds the values the last render captured (what the      *)
(* closures of handlers and effects read and what is on screen), and       *)
(* Render re-renders and runs the effects whose dependencies changed.      *)
(* The root is made by createRoot (part_014), so the state updates of one  *)
(* callback are batched: no render happens inside a handler.               *)
(* Positions are in tenths (2.5 is 25).                                    *)
(*                                                                         *)
(* Firestore is modelled by its contract: a listener is handed snapshots   *)
(* in order; its first snapshot and every later one show the server's      *)
(* document with the client's own pending writes applied; a snapshot is    *)
(* sent when that presented document changes, which happens when setDoc is *)
(* called and when a pending write is rejected; a released listener is     *)
(* handed nothing more.  No other client writes the document.              *)
(*                                                                         *)
(* Date.now() is read once per handler call; a reading is the millisecond  *)
(* of the previous reading or the next one.                                *)
(***************************************************************************)
EXTENDS Integers, Sequences, FiniteSets, TLC

VARIABLES
  variant,         \* which App component runs
  phase,           \* "new" (not yet mounted) | "mounted" | "unmounted"
  nodes,           \* useState([])     the node list
  constraints,     \* useState([])     the constraint list
  loading,         \* useState(true)
  authReady,       \* useState(false)
  db,              \* useState(null)   TRUE once the Firestore handle is set
  userId,          \* useState(null)
  ragIndex,        \* useState(0)
  selectedNodeId,  \* useState(null)
  selectedNodeIds, \* useState(new Set())   the selection set of part_010
  view,            \* what the last render captured, with the derived linePoints
  clock,           \* the last value Date.now() returned, 0 before the first reading
  authUser,        \* the Firebase user currently signed in, Null if none
  authPending,     \* TRUE when the auth-state observer has a notification due
  signIns,         \* sign-in requests in flight, in issue order
  remote,          \* the Firestore document axiomatic_state
  subs,            \* the snapshot subscriptions ever created
  effSub,          \* the subscription held by the current listener effect, 0 if none
  writes,          \* setDoc calls in flight, in issue order
  seedCalls,       \* number of setDoc(docRef, INITIAL_SYSTEM_STATE) calls issued
  issued,          \* number of spawn and ingestion writes issued
  failures,        \* number of requests (sign-ins, writes, listeners) the backend rejected
  errors,          \* what has been reported or left unhandled
  lastSnap,        \* <<s>> for the snapshot s most recently handed to the callback, else <<>>
  lastOp,          \* the handler that ran last, with its inputs
  rag,             \* part_005: ragState, and the sendRAGQuery call in progress
  peer             \* a second client of the same document, NoPeer if there is none

cells == <<nodes, constraints, loading, authReady, db, userId, ragIndex, selectedNodeId,
           selectedNodeIds>>
authv == <<authUser, authPending, signIns>>
storev == <<remote, subs, effSub, writes, seedCalls, issued, failures>>
vars == <<variant, phase, cells, view, clock, authv, storev, errors, lastSnap, lastOp,
          rag, peer>>

(***************************************************************************)
(* Bounds of the model.                                                    *)
(***************************************************************************)
MaxWrites == 2           \* spawn and ingestion writes issued in one run
MaxSubs == 2             \* subscriptions created in one run
MaxFailures == 1         \* sign-ins, writes and listeners the backend rejects in one run
MaxDeriveNodes == 2      \* node list length of the enumerated derivation inputs
MaxDeriveConstraints == 2 \* constraint list length of the enumerated inputs
MaxSelected == 1         \* size of the selection set of part_010
MaxRetries == 3          \* the retries argument of exponentialBackoffFetch
MaxQueries == 2          \* sendRAGQuery calls in one run

Undefined == "undefined"
Null == "null"

\* the value of `rag` in the variants without a RAG query
NoRag == [pc |-> "none"]

\* the value of `peer` while one client only uses the document
NoPeer == [pc |-> "none"]

\* the value of `remote` while the document does not exist
NoDoc == [missing |-> TRUE]

\* obj.field of a JavaScript object that may lack the field
Get(obj, field) == IF field \in DOMAIN obj THEN obj[field] ELSE Undefined

(***************************************************************************)
(* Data                                                                    *)
(***************************************************************************)
\* { id, name, color, position }
MkNode(id, name, color, position) ==
  [id |-> id, name |-> name, color |-> color, position |-> position]

\* { id, name, color, position, type, timestamp }
MkStampedNode(id, name, color, position, type, timestamp) ==
  [id |-> id, name |-> name, color |-> color, position |-> position,
   type |-> type, timestamp |-> timestamp]

INITIAL_SYSTEM_STATE ==
  [nodes |-> <<
     MkNode("rag-orch",   "Multi-Agent RAG",     "cyan",   <<20, 10, 0>>),
     MkNode("glyph-eng",  "GLYPH Engine",        "lime",   <<-20, 10, 0>>),
     MkNode("vgm-anchor", "VGM Anchor",          "cyan",   <<0, 25, -15>>),
     MkNode("manifold",   "Manifold Constraint", "lime",   <<0, -25, 15>>),
     MkNode("hax",        "HIL Agent X",         "orange", <<30, -5, -5>>) >>,
   constraints |-> <<
     <<"rag-orch", "glyph-eng", "lime">>,
     <<"rag-orch", "vgm-anchor", "cyan">>,
     <<"glyph-eng", "manifold", "lime">>,
     <<"vgm-anchor", "hax", "orange">>,
     <<"manifold", "hax", "orange">> >>]

RAG_ARTIFACTS == <<
  [name |-> "Regenesis Dystopia", color |-> "red",    type |-> "RAG-Synthesis",
   pos |-> <<-30, -40, 20>>, links |-> <<"rag-orch", "glyph-eng">>],
  [name |-> "QLM-NFT Protocol",   color |-> "purple", type |-> "VGM-Output",
   pos |-> <<40, 30, -10>>,  links |-> <<"vgm-anchor", "hax">>],
  [name |-> "Nico Robin Agent",   color |-> "yellow", type |-> "HIL-Agent",
   pos |-> <<-10, 40, 30>>,  links |-> <<"hax", "manifold">>] >>

\* artifact.name.replace(/\s/g, '-').toLowerCase() on the three artifact names
Slug(name) ==
  CASE name = "Regenesis Dystopia" -> "regenesis-dystopia"
    [] name = "QLM-NFT Protocol"   -> "qlm-nft-protocol"
    [] name = "Nico Robin Agent"   -> "nico-robin-agent"

Ids(N) == {N[i].id : i \in 1..Len(N)}

RECURSIVE FilterNotId(_, _)
\* nodes.filter(n => n.id !== id)
FilterNotId(N, id) ==
  IF N = <<>> THEN <<>>
  ELSE IF Head(N).id # id THEN <<Head(N)>> \o FilterNotId(Tail(N), id)
       ELSE FilterNotId(Tail(N), id)

RECURSIVE MapLinks(_, _, _)
\* artifact.links.map(linkId => [newNode.id, linkId, newNode.color])
MapLinks(links, id, color) ==
  IF links = <<>> THEN <<>>
  ELSE <<<<id, Head(links), color>>>> \o MapLinks(Tail(links), id, color)

(***************************************************************************)
(* Geometry derivation: nodeMap and linePoints                             *)
(***************************************************************************)
\* new Map(nodes.map(node => [node.id, node.position])): a later entry of the
\* same id replaces the earlier one
NodeMap_firstPosition(N) == [id \in Ids(N) |-> Get(N[1], "position")]
NodeMap(N) ==
  [id \in Ids(N) |->
     LET last == CHOOSE i \in 1..Len(N) :
                   /\ N[i].id = id
                   /\ \A j \in 1..Len(N) : N[j].id = id => j <= i
     IN Get(N[last], "position")]

\* nodeMap.get(id)
MapGet(m, id) == IF id \in DOMAIN m THEN m[id] ELSE Undefined

\* JavaScript truthiness of a looked-up position
Truthy(v) == v # Undefined /\ v # Null

\* if (startPos && endPos)
BothResolved_onlyStart(startPos, endPos) == Truthy(startPos)
BothResolved(startPos, endPos) == Truthy(startPos) /\ Truthy(endPos)

\* new THREE.Vector3(...pos): spreading undefined raises a TypeError
CanSpread(pos) == pos # Undefined /\ pos # Null

RECURSIVE PushLines(_, _, _)
\* constraints.forEach(([startId, endId, color]) => { ... points.push(...) })
PushLines(C, m, points) ==
  IF C = <<>> THEN points
  ELSE LET startPos == MapGet(m, Head(C)[1])
           endPos == MapGet(m, Head(C)[2])
       IN IF BothResolved(startPos, endPos)
          THEN IF CanSpread(startPos) /\ CanSpread(endPos)
               THEN PushLines(Tail(C), m,
                      Append(points, [points |-> <<startPos, endPos>>,
                                      color |-> Head(C)[3]]))
               ELSE "TypeError"
          ELSE PushLines(Tail(C), m, points)

\* the linePoints memo
LinePoints(N, C) == PushLines(C, NodeMap(N), <<>>)

(***************************************************************************)
(* Rendering                                                               *)
(***************************************************************************)
\* isReady = db && userId && !loading
IsReady(d, u, l) == d /\ u # Null /\ ~l

Capture(N, C, l, a, d, u, r, s, S) ==
  [nodes |-> N, constraints |-> C, loading |-> l, authReady |-> a, db |-> d,
   userId |-> u, ragIndex |-> r, selectedNodeId |-> s, selectedNodeIds |-> S,
   isReady |-> IsReady(d, u, l), linePoints |-> LinePoints(N, C)]

Current == Capture(nodes, constraints, loading, authReady, db, userId,
                   ragIndex, selectedNodeId, selectedNodeIds)

InitCells ==
  /\ nodes = <<>> /\ constraints = <<>> /\ loading = TRUE /\ authReady = FALSE
  /\ db = FALSE /\ userId = Null /\ ragIndex = 0 /\ selectedNodeId = Null
  /\ selectedNodeIds = {}

InitRest ==
  /\ clock = 0
  /\ authUser = Null /\ authPending = FALSE /\ signIns = <<>>
  /\ remote = NoDoc /\ subs = <<>> /\ effSub = 0 /\ writes = <<>>
  /\ seedCalls = 0 /\ issued = 0 /\ failures = 0 /\ errors = {} /\ lastSnap = <<>>
  /\ lastOp = <<"none">>
  /\ rag = NoRag
  /\ peer = NoPeer

(***************************************************************************)
(* The derivation on enumerated inputs (variant "derive")                  *)
(***************************************************************************)
DeriveIds == {"rag-orch", "hax"}
DerivePositions == {<<20, 10, 0>>, <<30, -5, -5>>}
DeriveColors == {"lime", "white"}
DeriveNodes == {MkNode(i, "n", "cyan", p) :
                  i \in DeriveIds, p \in DerivePositions}
DeriveEdgeIds == DeriveIds \cup {"vgm-anchor"}
DeriveEdges == {<<a, b, c>> : a \in DeriveEdgeIds, b \in DeriveEdgeIds, c \in DeriveColors}

SeqsUpTo(S, n) == UNION {[1..k -> S] : k \in 0..n}

InitDerive ==
  /\ variant = "derive"
  /\ phase = "mounted"
  /\ nodes \in SeqsUpTo(DeriveNodes, MaxDeriveNodes)
  /\ constraints \in SeqsUpTo(DeriveEdges, MaxDeriveConstraints)
  /\ loading = FALSE /\ authReady = FALSE /\ db = FALSE /\ userId = Null
  /\ ragIndex = 0 /\ selectedNodeId = Null /\ selectedNodeIds = {}
  /\ view = Capture(<<>>, <<>>, FALSE, FALSE, FALSE, Null, 0, Null, {})
  /\ InitRest

RECURSIVE PruneUnresolved(_, _)
PruneUnresolved(C, N) ==
  IF C = <<>> THEN <<>>
  ELSE IF Head(C)[1] \in Ids(N) /\ Head(C)[2] \in Ids(N)
       THEN <<Head(C)>> \o PruneUnresolved(Tail(C), N)
       ELSE PruneUnresolved(Tail(C), N)

RenderDerive_prunes ==
  /\ variant = "derive"
  /\ view # Current
  /\ constraints' = PruneUnresolved(constraints, nodes)
  /\ view' = Capture(nodes, constraints', loading, authReady, db, userId,
                     ragIndex, selectedNodeId, selectedNodeIds)
  /\ lastOp' = <<"render">>
  /\ UNCHANGED <<variant, rag, peer, phase, nodes, loading, authReady, db, userId, ragIndex,
                 selectedNodeId, selectedNodeIds, clock, authv, storev, errors,
                 lastSnap>>

\* a render of the App body: the memos are recomputed from the current cells
RenderDerive ==
  /\ variant = "derive"
  /\ view # Current
  /\ view' = Current
  /\ lastOp' = <<"render">>
  /\ UNCHANGED <<variant, rag, peer, phase, cells, clock, authv, storev, errors, lastSnap>>

(***************************************************************************)
(* The local variants: "local" (src/src/App.jsx:117) and "p003"            *)
(* (src/unnamed/part_003).  The graph lives in the useState cells only.    *)
(***************************************************************************)
MaxSpawns == 2           \* local spawns in one run

\* the hit position handed to onSpawn
SpawnPositions == {<<10, 20, 30>>}

\* the draws of Math.floor(Math.random() * n) that are followed: the first
\* and the last index
RandomDraws(n) == {0, n - 1}

\* the values Date.now() may return: the millisecond of the previous reading
\* or a later one (only the equality of two readings is ever observed)
Now == IF clock = 0 THEN {1} ELSE {clock, clock + 1}

P003_NODES == <<
  MkNode("rag-orch",   "Multi-Agent RAG",     "cyan",   <<25, 15, 0>>),
  MkNode("glyph-eng",  "GLYPH Engine",        "lime",   <<-25, 15, 0>>),
  MkNode("vgm-anchor", "VGM Anchor",          "cyan",   <<0, 30, -20>>),
  MkNode("manifold",   "Manifold Constraint", "lime",   <<0, -30, 20>>),
  MkNode("hax",        "HIL Agent X",         "orange", <<40, -10, -10>>) >>

\* part_003 keeps a constraint as {startId, endId, color}; here <<startId, endId, color>>
P003_CONSTRAINTS == <<
  <<"rag-orch", "glyph-eng", "cyan">>,
  <<"glyph-eng", "vgm-anchor", "lime">>,
  <<"vgm-anchor", "manifold", "cyan">>,
  <<"manifold", "rag-orch", "lime">>,
  <<"glyph-eng", "hax", "orange">> >>

LocalVariants == {"local", "p003"}

InitLocal ==
  /\ variant \in LocalVariants
  /\ phase = "new"
  /\ InitCells
  /\ view = Current
  /\ InitRest

\* useEffect(() => { setNodes(INITIAL...); setConstraints(INITIAL...) }, [])
MountLocal ==
  /\ variant \in LocalVariants
  /\ phase = "new"
  /\ phase' = "mounted"
  /\ nodes' = IF variant = "p003" THEN P003_NODES ELSE INITIAL_SYSTEM_STATE.nodes
  /\ constraints' = IF variant = "p003" THEN P003_CONSTRAINTS
                    ELSE INITIAL_SYSTEM_STATE.constraints
  /\ lastOp' = <<"mount">>
  /\ UNCHANGED <<variant, rag, peer, loading, authReady, db, userId, ragIndex, selectedNodeId, selectedNodeIds,
                 view, clock, authv, storev, errors, lastSnap>>

\* `spawn-${Date.now()}`
LocalSpawnId(t) == "spawn-" \o ToString(t)

\* setNodes(c => [...c, newNode])
AppendNode(c, newNode) == Append(c, newNode)

\* handleSpawn of App.jsx:150: the anchor is nodes[Math.floor(Math.random() * nodes.length)]
\* of the closure's node list; with an empty list existingNode.id raises a TypeError
HandleSpawnLocal(pos, r, t) ==
  /\ variant = "local"
  /\ phase = "mounted"
  /\ t \in Now
  /\ clock' = t
  /\ Len(nodes) < Len(INITIAL_SYSTEM_STATE.nodes) + MaxSpawns
  /\ IF Len(view.nodes) = 0
     THEN /\ r = -1
          /\ t = (IF clock = 0 THEN 1 ELSE clock)
          /\ errors' = errors \cup {"uncaught TypeError in handleSpawn"}
          /\ lastOp' = <<"spawn-threw">>
          /\ UNCHANGED <<nodes, constraints>>
     ELSE /\ r \in RandomDraws(Len(view.nodes))
          /\ LET newId == LocalSpawnId(t)
                 newNode == MkNode(newId, "Spawned " \o ToString(Len(view.nodes) + 1),
                                   "white", pos)
                 existingNode == view.nodes[r + 1]
                 newConstraint == <<newId, existingNode.id, "white">>
             IN /\ nodes' = AppendNode(nodes, newNode)
                /\ constraints' = Append(constraints, newConstraint)
                /\ lastOp' = <<"spawn", newId>>
          /\ UNCHANGED errors
  /\ UNCHANGED <<variant, rag, peer, phase, loading, authReady, db, userId, ragIndex,
                 selectedNodeId, selectedNodeIds, view, authv, storev, lastSnap>>

\* handleSpawn of part_003:125: the anchor is 'manifold'
HandleSpawnP003(pos, t) ==
  /\ variant = "p003"
  /\ phase = "mounted"
  /\ t \in Now
  /\ clock' = t
  /\ Len(nodes) < Len(P003_NODES) + MaxSpawns
  /\ LET newId == LocalSpawnId(t)
         newNode == MkNode(newId, "Spawned Glyph", "orange", pos)
     IN /\ nodes' = AppendNode(nodes, newNode)
        /\ constraints' = Append(constraints, <<"manifold", newId, "orange">>)
        /\ lastOp' = <<"spawn", newId>>
  /\ UNCHANGED <<variant, rag, peer, phase, loading, authReady, db, userId, ragIndex,
                 selectedNodeId, selectedNodeIds, view, authv, storev, errors, lastSnap>>

\* a re-render of a local App: the closures and memos see the current cells
RenderLocal ==
  /\ variant \in LocalVariants
  /\ view # Current
  /\ view' = Current
  /\ lastOp' = <<"render">>
  /\ UNCHANGED <<variant, rag, peer, phase, cells, clock, authv, storev, errors, lastSnap>>

NextLocal ==
  \/ MountLocal
  \/ \E pos \in SpawnPositions, r \in -1..Len(view.nodes), t \in Now :
       HandleSpawnLocal(pos, r, t)
  \/ \E pos \in SpawnPositions, t \in Now : HandleSpawnP003(pos, t)
  \/ RenderLocal

SpecLocal == InitLocal /\ [][NextLocal]_vars

(***************************************************************************)
(* The remote-sync variants                                                *)
(***************************************************************************)
SyncVariants == {"p013", "p004", "p008", "appjsx", "p010"}

\* variants whose source holds handleSpawn / handleRAGIngestion / a node-click handler
SpawnVariants == {"p013", "p010"}
RagVariants == {"p013", "p008", "p010"}
ClickVariants == {"p004", "appjsx"}
\* the variant whose selection is a Set of node ids
SelectSetVariants == {"p010"}


\* the Firestore document before the app starts: absent, holding the default
\* snapshot, or present without the two fields
DefaultDoc == [nodes |-> INITIAL_SYSTEM_STATE.nodes,
               constraints |-> INITIAL_SYSTEM_STATE.constraints]
EmptyDoc == [createdBy |-> "console"]
InitialRemotes == {NoDoc, DefaultDoc, EmptyDoc}

\* what a DocumentSnapshot of the document shows: exists() and data()
SnapOf(doc) ==
  IF doc = NoDoc THEN [exists |-> FALSE] ELSE [exists |-> TRUE, data |-> doc]

\* data.nodes || []
OrEmpty(x) == IF x = Undefined THEN <<>> ELSE x

\* what setDoc(docRef, data, { merge }) leaves in the document
Stored(doc, w) ==
  IF w.merge /\ doc # NoDoc
  THEN [f \in DOMAIN doc \cup {"nodes", "constraints"} |->
          IF f = "nodes" THEN w.nodes
          ELSE IF f = "constraints" THEN w.constraints ELSE doc[f]]
  ELSE [nodes |-> w.nodes, constraints |-> w.constraints]

\* the document as this client's SDK presents it: the server's document with
\* the client's own pending writes applied (latency compensation)
RECURSIVE Cached(_, _)
Cached(doc, W) == IF W = <<>> THEN doc ELSE Cached(Stored(doc, Head(W)), Tail(W))

\* every live subscription is sent the new state of the document
Broadcast(S, doc) ==
  [i \in DOMAIN S |->
     IF S[i].active THEN [S[i] EXCEPT !.q = Append(@, SnapOf(doc))] ELSE S[i]]

\* the listeners' queues after the pending writes went from W to W2: a snapshot
\* is sent only when the presented document changed
Notify(S, W, W2) ==
  IF Cached(remote, W2) # Cached(remote, W) THEN Broadcast(S, Cached(remote, W2)) ELSE S

\* return () => unsubscribe(): the effect's cleanup releases its subscription
Cleanup_noUnsubscribe(S, s) == S
Cleanup(S, s) ==
  IF s = 0 THEN S ELSE [S EXCEPT ![s].active = FALSE, ![s].q = <<>>]

InitSync ==
  /\ variant \in SyncVariants \ SelectSetVariants
  /\ phase = "new"
  /\ InitCells
  /\ view = Current
  /\ clock = 0
  /\ authUser = Null /\ authPending = FALSE /\ signIns = <<>>
  /\ remote \in InitialRemotes
  /\ subs = <<>> /\ effSub = 0 /\ writes = <<>>
  /\ seedCalls = 0 /\ issued = 0 /\ failures = 0 /\ errors = {} /\ lastSnap = <<>>
  /\ lastOp = <<"none">>
  /\ rag = NoRag
  /\ peer = NoPeer

\* the Firebase initialisation effect, run once after the first render
Mount(cfg, token) ==
  /\ variant \in SyncVariants
  /\ phase = "new"
  /\ phase' = "mounted"
  /\ lastOp' = <<"mount">>
  /\ CASE cfg = "missing" ->
            /\ token = FALSE
            /\ loading' = FALSE
            /\ nodes' = IF variant = "p008" THEN nodes ELSE INITIAL_SYSTEM_STATE.nodes
            /\ constraints' = IF variant = "p008" THEN constraints
                              ELSE INITIAL_SYSTEM_STATE.constraints
            /\ errors' = errors \cup {"Firebase config is missing"}
            /\ UNCHANGED <<db, authv>>
       [] cfg = "throws" ->
            /\ token = FALSE
            /\ loading' = FALSE
            /\ errors' = errors \cup {"Firebase setup failed"}
            /\ UNCHANGED <<nodes, constraints, db, authv>>
       [] cfg = "ok" ->
            /\ db' = TRUE
            /\ authPending' = TRUE
            /\ signIns' = IF token THEN <<"token">> ELSE <<>>
            /\ UNCHANGED <<nodes, constraints, loading, authUser, errors>>
  /\ UNCHANGED <<variant, rag, peer, authReady, userId, ragIndex, selectedNodeId, selectedNodeIds, view, clock,
                 storev, lastSnap>>

\* handleAuth(user), the onAuthStateChanged observer
HandleAuth ==
  /\ variant \in SyncVariants
  /\ phase = "mounted"
  /\ authPending
  /\ authPending' = FALSE
  /\ lastOp' = <<"auth">>
  /\ IF authUser # Null
     THEN /\ userId' = authUser
          /\ authReady' = TRUE
          /\ UNCHANGED signIns
     ELSE /\ signIns' = Append(signIns, "anon")
          \* part_008 awaits the sign-in before setAuthReady(true)
          /\ authReady' = IF variant = "p008" THEN authReady ELSE TRUE
          /\ UNCHANGED userId
  /\ UNCHANGED <<variant, rag, peer, phase, nodes, constraints, loading, db, ragIndex,
                 selectedNodeId, selectedNodeIds, view, clock, authUser, storev, errors, lastSnap>>

\* a sign-in request settles; the continuation the variant attached to it runs
SignInSettles(ok) ==
  /\ variant \in SyncVariants
  /\ signIns # <<>>
  /\ signIns' = Tail(signIns)
  /\ lastOp' = <<"sign-in", ok>>
  /\ ~ok => failures < MaxFailures
  /\ failures' = IF ok THEN failures ELSE failures + 1
  /\ LET req == Head(signIns)
         uid == IF req = "token" THEN "token-uid" ELSE "anon-uid"
         live == phase = "mounted"
     IN IF ok
        THEN /\ authUser' = uid
             /\ authPending' = live
             /\ userId' = IF live /\ req = "anon" /\ variant # "p004" THEN uid ELSE userId
             /\ authReady' = IF live /\ req = "anon" /\ variant = "p008"
                             THEN TRUE ELSE authReady
             /\ UNCHANGED errors
        ELSE /\ errors' = errors \cup
                  {CASE req = "token" /\ variant = "p004" -> "swallowed: custom token sign-in"
                     [] req = "token" /\ variant # "p004" -> "Custom token sign-in failed"
                     [] req = "anon" /\ variant \in {"p013", "appjsx", "p010"} ->
                          "Anonymous sign-in failed"
                     [] OTHER -> "unhandled rejection: signInAnonymously"}
             /\ UNCHANGED <<authUser, authPending, userId, authReady>>
  /\ UNCHANGED <<variant, rag, peer, phase, nodes, constraints, loading, db, ragIndex,
                 selectedNodeId, selectedNodeIds, view, clock, remote, subs, effSub, writes, seedCalls,
                 issued, lastSnap>>

\* the dependency list of the listener effect
ListenerDeps(v) ==
  IF variant = "p004" THEN <<v.db, v.authReady, v.selectedNodeId>>
  ELSE <<v.db, v.authReady>>

\* the guard of the listener effect: if (!db || !authReady) return
ListenerRuns_dbOnly(d, a) == d
ListenerRuns(d, a) == d /\ a

\* a re-render; the listener effect is cleaned up and run again when one of
\* its dependencies changed: if (!db || !authReady) return; ... onSnapshot(...)
RenderSync ==
  /\ variant \in SyncVariants
  /\ phase = "mounted"
  /\ view # Current
  /\ view' = Current
  /\ lastOp' = <<"render">>
  /\ IF ListenerDeps(Current) # ListenerDeps(view)
     THEN LET released == Cleanup(subs, effSub)
          IN IF ListenerRuns(db, authReady)
             THEN /\ subs' = Append(released,
                               [active |-> TRUE, q |-> <<SnapOf(Cached(remote, writes))>>,
                                sel |-> IF variant = "p004" THEN selectedNodeId ELSE Null])
                  /\ effSub' = Len(subs) + 1
             ELSE /\ subs' = released
                  /\ effSub' = 0
     ELSE UNCHANGED <<subs, effSub>>
  /\ UNCHANGED <<variant, rag, peer, phase, cells, clock, authv, remote, writes, seedCalls,
                 issued, failures, errors, lastSnap>>

\* the component is torn down: both effects' cleanups run
Unmount ==
  /\ variant \in SyncVariants
  /\ phase = "mounted"
  /\ phase' = "unmounted"
  /\ subs' = Cleanup(subs, effSub)
  /\ effSub' = 0
  /\ authPending' = FALSE
  /\ lastOp' = <<"unmount">>
  /\ UNCHANGED <<variant, rag, peer, cells, view, clock, authUser, signIns, remote, writes,
                 seedCalls, issued, failures, errors, lastSnap>>

\* setNodes(data.nodes || []) and setConstraints(data.constraints || [])
SnapshotNodes_merge(data) == nodes \o OrEmpty(Get(data, "nodes"))
SnapshotNodes(data) == OrEmpty(Get(data, "nodes"))
SnapshotConstraints_stale(data) == constraints
SnapshotConstraints(data) == OrEmpty(Get(data, "constraints"))

\* !data.nodes?.some(n => n.id === selectedNodeId)
NoSuchNode(N, id) == N = Undefined \/ id \notin Ids(N)

\* initializeState: setDoc(docRef, INITIAL_SYSTEM_STATE, { merge: ... })
SeedWrite ==
  [kind |-> "seed", nodes |-> INITIAL_SYSTEM_STATE.nodes,
   constraints |-> INITIAL_SYSTEM_STATE.constraints, merge |-> variant = "p008"]

\* the missing-document branch sets the local graph to the default snapshot
\* (part_008 only calls initializeState)
MissingBranchNodes == IF variant = "p008" THEN nodes ELSE INITIAL_SYSTEM_STATE.nodes
MissingBranchConstraints ==
  IF variant = "p008" THEN constraints ELSE INITIAL_SYSTEM_STATE.constraints

\* the snapshot callback handed to onSnapshot, run on the oldest undelivered
\* snapshot of subscription s
OnSnapshot(s) ==
  /\ variant \in SyncVariants
  /\ s \in DOMAIN subs
  /\ subs[s].active
  /\ subs[s].q # <<>>
  /\ LET snap == Head(subs[s].q)
         live == phase = "mounted"
         taken == [subs EXCEPT ![s].q = Tail(@)]
     IN /\ lastSnap' = <<snap>>
        /\ lastOp' = <<"snapshot", s, snap.exists>>
        /\ IF snap.exists
           THEN /\ nodes' = IF live THEN SnapshotNodes(snap.data) ELSE nodes
                /\ constraints' = IF live THEN SnapshotConstraints(snap.data) ELSE constraints
                /\ selectedNodeId' =
                     IF /\ live
                        /\ variant = "p004"
                        /\ subs[s].sel # Null
                        /\ NoSuchNode(Get(snap.data, "nodes"), subs[s].sel)
                     THEN Null ELSE selectedNodeId
                /\ subs' = taken
                /\ UNCHANGED <<writes, seedCalls>>
           ELSE /\ nodes' = IF live THEN MissingBranchNodes ELSE nodes
                /\ constraints' = IF live THEN MissingBranchConstraints ELSE constraints
                /\ writes' = Append(writes, SeedWrite)
                /\ subs' = Notify(taken, writes, writes')
                /\ seedCalls' = seedCalls + 1
                /\ UNCHANGED selectedNodeId
        /\ loading' = IF live THEN FALSE ELSE loading
  /\ UNCHANGED <<variant, rag, peer, phase, authReady, db, userId, ragIndex, selectedNodeIds,
                 view, clock, authv, remote, effSub, issued, failures, errors>>

SnapshotError_resetsGraph(s) ==
  /\ variant \in SyncVariants
  /\ s \in DOMAIN subs
  /\ subs[s].active
  /\ subs' = [subs EXCEPT ![s].active = FALSE, ![s].q = <<>>]
  /\ failures < MaxFailures
  /\ failures' = failures + 1
  /\ lastOp' = <<"snapshot-error", s>>
  /\ IF variant = "p004"
     THEN /\ errors' = errors \cup {"uncaught error in snapshot listener"}
          /\ UNCHANGED loading
     ELSE /\ errors' = errors \cup {"Firestore snapshot failed"}
          /\ loading' = IF phase = "mounted" THEN FALSE ELSE loading
  /\ nodes' = INITIAL_SYSTEM_STATE.nodes
  /\ constraints' = INITIAL_SYSTEM_STATE.constraints
  /\ UNCHANGED <<variant, rag, peer, phase, authReady, db, userId, ragIndex,
                 selectedNodeId, selectedNodeIds, view, clock, authv, remote, effSub, writes,
                 seedCalls, issued, lastSnap>>

\* the listener fails, before or after its first snapshot; Firestore ends the
\* subscription and hands it nothing more.  part_004 passes no error callback
\* to onSnapshot
SnapshotError(s) ==
  /\ variant \in SyncVariants
  /\ s \in DOMAIN subs
  /\ subs[s].active
  /\ subs' = [subs EXCEPT ![s].active = FALSE, ![s].q = <<>>]
  /\ failures < MaxFailures
  /\ failures' = failures + 1
  /\ lastOp' = <<"snapshot-error", s>>
  /\ IF variant = "p004"
     THEN /\ errors' = errors \cup {"uncaught error in snapshot listener"}
          /\ UNCHANGED loading
     ELSE /\ errors' = errors \cup {"Firestore snapshot failed"}
          /\ loading' = IF phase = "mounted" THEN FALSE ELSE loading
  /\ UNCHANGED <<variant, rag, peer, phase, nodes, constraints, authReady, db, userId, ragIndex,
                 selectedNodeId, selectedNodeIds, view, clock, authv, remote, effSub, writes,
                 seedCalls, issued, lastSnap>>

\* `hil-input-${Date.now()}`
SpawnId(t) == "hil-input-" \o ToString(t)

\* [...nodes.filter(n => n.id !== newNode.id), newNode]
UniqueNodes(N, newNode) == Append(FilterNotId(N, newNode.id), newNode)

\* INITIAL_SYSTEM_STATE.nodes.map(n => n.id)
AxiomaticIds == [i \in 1..Len(INITIAL_SYSTEM_STATE.nodes) |-> INITIAL_SYSTEM_STATE.nodes[i].id]

\* handleSpawn(pos) of part_013; r is Math.floor(Math.random() * axiomaticIds.length)
HandleSpawn(pos, r, t) ==
  /\ variant \in SpawnVariants
  /\ phase = "mounted"
  /\ ~view.loading
  /\ issued < MaxWrites
  /\ r \in RandomDraws(Len(AxiomaticIds))
  /\ IF ~view.isReady
     THEN /\ r = 0
          /\ t = clock
          /\ lastOp' = <<"spawn-ignored">>
          /\ UNCHANGED <<writes, subs, issued, clock>>
     ELSE LET newId == SpawnId(t)
              newNode == MkStampedNode(newId, "HIL Input " \o ToString(Len(view.nodes) + 1),
                                "white", pos, "HIL-Input", t)
              existingNodeId == AxiomaticIds[r + 1]
              newConstraint == <<newId, existingNodeId, "white">>
          IN /\ writes' = Append(writes,
                   [kind |-> "spawn", nodes |-> UniqueNodes(view.nodes, newNode),
                    constraints |-> Append(view.constraints, newConstraint),
                    merge |-> FALSE])
             /\ subs' = Notify(subs, writes, writes')
             /\ issued' = issued + 1
             /\ clock' = t
             /\ lastOp' = <<"spawn", newId>>
  /\ UNCHANGED <<variant, rag, peer, phase, cells, view, authv, remote, effSub,
                 seedCalls, failures, errors, lastSnap>>

\* handleRAGIngestion of part_013 and part_008
HandleRAGIngestion(t) ==
  /\ variant \in RagVariants
  /\ phase = "mounted"
  /\ ~view.loading
  /\ issued < MaxWrites
  /\ t \in Now
  /\ IF ~view.isReady
     THEN /\ t = clock
          /\ lastOp' = <<"rag-ignored">>
          /\ UNCHANGED <<writes, subs, issued, clock>>
     ELSE LET artifact == RAG_ARTIFACTS[(view.ragIndex % Len(RAG_ARTIFACTS)) + 1]
              newNode == MkStampedNode(Slug(artifact.name), artifact.name, artifact.color,
                                artifact.pos, artifact.type, t)
              newConstraints == MapLinks(artifact.links, newNode.id, newNode.color)
          IN /\ writes' = Append(writes,
                   [kind |-> "rag", nodes |-> UniqueNodes(view.nodes, newNode),
                    constraints |-> view.constraints \o newConstraints,
                    merge |-> variant = "p008"])
             /\ subs' = Notify(subs, writes, writes')
             /\ issued' = issued + 1
             /\ clock' = t
             /\ lastOp' = <<"rag", newNode.id>>
  /\ UNCHANGED <<variant, rag, peer, phase, cells, view, authv, remote, effSub,
                 seedCalls, failures, errors, lastSnap>>

\* what runs after `await setDoc(...)` of an ingestion: setRagIndex(i => i + 1)
RagIndexAfter_always(kind, ok, i) == IF kind = "rag" THEN i + 1 ELSE i
RagIndexAfter(kind, ok, i) == IF kind = "rag" /\ ok THEN i + 1 ELSE i

\* the catch block of the handler that issued the write
WriteFailureReport(kind) ==
  CASE kind = "seed" /\ variant = "p004" -> "unhandled rejection: initializeState"
    [] kind = "seed" /\ variant # "p004" -> "Error setting initial state"
    [] kind = "spawn" -> "Error spawning node"
    [] kind = "rag" -> "Error injecting RAG artifact"

\* the oldest setDoc in flight settles and the code after its await runs: the
\* server stores an accepted write; a rejected one is dropped from the
\* presented document
WriteSettles(ok) ==
  /\ variant \in SyncVariants
  /\ writes # <<>>
  /\ LET w == Head(writes)
     IN /\ writes' = Tail(writes)
        /\ ~ok => failures < MaxFailures
        /\ failures' = IF ok THEN failures ELSE failures + 1
        /\ lastOp' = <<"write", w.kind, ok>>
        /\ ragIndex' = IF phase = "mounted" THEN RagIndexAfter(w.kind, ok, ragIndex)
                       ELSE ragIndex
        /\ IF ok
           THEN /\ remote' = Stored(remote, w)
                /\ UNCHANGED <<subs, errors>>
           ELSE /\ errors' = errors \cup {WriteFailureReport(w.kind)}
                /\ subs' = Notify(subs, writes, writes')
                /\ UNCHANGED remote
  /\ UNCHANGED <<variant, rag, peer, phase, nodes, constraints, loading, authReady, db, userId,
                 selectedNodeId, selectedNodeIds, view, clock, authv, effSub, seedCalls, issued, lastSnap>>

\* the ids of the GlyphNodes that are clicked: the first and the last rendered
ClickTargets(N) == {N[i].id : i \in {1, Len(N)} \cap DOMAIN N}

\* part_004:261  setSelectedNodeId(prev => prev === nodeId ? null : nodeId)
\* App.jsx:481   const newId = nodeId === selectedNodeId ? null : nodeId
Toggled(nodeId) ==
  IF variant = "appjsx"
  THEN (IF nodeId = view.selectedNodeId THEN Null ELSE nodeId)
  ELSE (IF selectedNodeId = nodeId THEN Null ELSE nodeId)

\* handleNodeClick(nodeId)
HandleNodeClick(nodeId) ==
  /\ variant \in ClickVariants
  /\ phase = "mounted"
  /\ ~view.loading
  /\ nodeId \in ClickTargets(view.nodes)
  /\ variant = "p004" => Len(subs) < MaxSubs
  /\ selectedNodeId' = Toggled(nodeId)
  /\ lastOp' = <<"click", nodeId, selectedNodeId>>
  /\ UNCHANGED <<variant, rag, peer, phase, nodes, constraints, loading, authReady, db, userId,
                 ragIndex, selectedNodeIds, view, clock, authv, storev, errors,
                 lastSnap>>

NextSync ==
  \/ \E cfg \in {"ok", "missing", "throws"}, token \in BOOLEAN : Mount(cfg, token)
  \/ HandleAuth
  \/ \E ok \in BOOLEAN : SignInSettles(ok)
  \/ RenderSync
  \/ Unmount
  \/ \E s \in DOMAIN subs : OnSnapshot(s)
  \/ \E s \in DOMAIN subs : SnapshotError(s)
  \/ \E pos \in SpawnPositions, r \in 0..Len(AxiomaticIds) - 1, t \in Now :
       HandleSpawn(pos, r, t)
  \/ \E t \in Now : HandleRAGIngestion(t)
  \/ \E ok \in BOOLEAN : WriteSettles(ok)
  \/ \E nodeId \in Ids(view.nodes) : HandleNodeClick(nodeId)

Spec == InitSync /\ [][NextSync]_vars

(***************************************************************************)
(* part_013 run by two clients of one document.  The first client is the   *)
(* App above; the second, `peer`, is another browser running the same App, *)
(* signed in, its listener attached, re-rendered after each of its         *)
(* snapshots.  Its requests are all accepted.                              *)
(***************************************************************************)
MaxPeerSpawns == 1       \* spawns of the second client in one run

PairRemotes == {NoDoc, DefaultDoc}

InitPair ==
  /\ variant = "p013"
  /\ phase = "new"
  /\ InitCells
  /\ view = Current
  /\ clock = 0
  /\ authUser = Null /\ authPending = FALSE /\ signIns = <<>>
  /\ remote \in PairRemotes
  /\ subs = <<>> /\ effSub = 0 /\ writes = <<>>
  /\ seedCalls = 0 /\ issued = 0 /\ failures = 0 /\ errors = {} /\ lastSnap = <<>>
  /\ lastOp = <<"none">>
  /\ rag = NoRag
  /\ peer = [pc |-> "listening", loading |-> TRUE, nodes |-> <<>>, constraints |-> <<>>,
             seen |-> <<>>, writes |-> <<>>, spawns |-> 0, mine |-> {}]

\* the second client's snapshot callback, handed the document as its SDK
\* presents it now; snapshots it was not handed in between are replaced by
\* this one
PeerSnapshot ==
  /\ peer.pc = "listening"
  /\ LET doc == Cached(remote, peer.writes)
     IN /\ peer.seen # <<doc>>
        /\ lastOp' = <<"peer-snapshot", doc # NoDoc>>
        /\ peer' = IF doc # NoDoc
                   THEN [peer EXCEPT !.seen = <<doc>>, !.loading = FALSE,
                                     !.nodes = SnapshotNodes(doc),
                                     !.constraints = SnapshotConstraints(doc)]
                   ELSE [peer EXCEPT !.seen = <<doc>>, !.loading = FALSE,
                                     !.nodes = INITIAL_SYSTEM_STATE.nodes,
                                     !.constraints = INITIAL_SYSTEM_STATE.constraints,
                                     !.writes = Append(@, SeedWrite)]
  /\ UNCHANGED <<variant, rag, phase, cells, view, clock, authv, storev, errors, lastSnap>>

\* handleSpawn(pos) run by the second client
PeerSpawn(pos, r, t) ==
  /\ peer.pc = "listening"
  /\ ~peer.loading
  /\ peer.spawns < MaxPeerSpawns
  /\ LET newId == SpawnId(t)
         newNode == MkStampedNode(newId, "HIL Input " \o ToString(Len(peer.nodes) + 1),
                           "white", pos, "HIL-Input", t)
         newConstraint == <<newId, AxiomaticIds[r + 1], "white">>
     IN /\ peer' = [peer EXCEPT
                      !.writes = Append(@,
                         [kind |-> "spawn", nodes |-> UniqueNodes(peer.nodes, newNode),
                          constraints |-> Append(peer.constraints, newConstraint),
                          merge |-> FALSE]),
                      !.spawns = @ + 1,
                      !.mine = @ \cup {newId}]
        /\ clock' = t
        /\ lastOp' = <<"peer-spawn", newId>>
  /\ UNCHANGED <<variant, rag, phase, cells, view, authv, storev, errors, lastSnap>>

\* the server accepts the second client's oldest pending setDoc; the first
\* client's listeners are sent the document if what they are presented changed
PeerWriteSettles ==
  /\ peer.pc = "listening"
  /\ peer.writes # <<>>
  /\ LET w == Head(peer.writes)
         stored == Stored(remote, w)
     IN /\ remote' = stored
        /\ peer' = [peer EXCEPT !.writes = Tail(@)]
        /\ subs' = IF Cached(stored, writes) # Cached(remote, writes)
                   THEN Broadcast(subs, Cached(stored, writes)) ELSE subs
        /\ lastOp' = <<"peer-write", w.kind>>
  /\ UNCHANGED <<variant, rag, phase, cells, view, clock, authv, effSub, writes, seedCalls,
                 issued, failures, errors, lastSnap>>

NextPair ==
  \/ \E token \in BOOLEAN : Mount("ok", token)
  \/ HandleAuth
  \/ SignInSettles(TRUE)
  \/ RenderSync
  \/ \E s \in DOMAIN subs : OnSnapshot(s)
  \/ \E pos \in SpawnPositions, r \in {0}, t \in Now : HandleSpawn(pos, r, t)
  \/ WriteSettles(TRUE)
  \/ PeerSnapshot
  \/ \E pos \in SpawnPositions, r \in {0}, t \in Now : PeerSpawn(pos, r, t)
  \/ PeerWriteSettles

SpecPair == InitPair /\ [][NextPair]_vars

(***************************************************************************)
(* part_010: the remote sync of part_013 with a set of selected nodes      *)
(***************************************************************************)
\* the GlyphNodes that are clicked: the last one rendered, which is the
\* newest node of the graph
SelectTargets(N) == {N[i].id : i \in {Len(N)} \cap DOMAIN N}

\* newSet.has(nodeId) ? newSet.delete(nodeId) : newSet.add(nodeId)
ToggledSet(S, nodeId) == IF nodeId \in S THEN S \ {nodeId} ELSE S \cup {nodeId}

\* nodes.filter(node => selectedNodeIds.has(node.id))
RECURSIVE SelectedNodes(_, _)
SelectedNodes(N, S) ==
  IF N = <<>> THEN <<>>
  ELSE IF Head(N).id \in S THEN <<Head(N)>> \o SelectedNodes(Tail(N), S)
       ELSE SelectedNodes(Tail(N), S)

\* the document exists when the app starts
SelectRemotes == {DefaultDoc}

InitSelect ==
  /\ variant \in SelectSetVariants
  /\ phase = "new"
  /\ InitCells
  /\ view = Current
  /\ clock = 0
  /\ authUser = Null /\ authPending = FALSE /\ signIns = <<>>
  /\ remote \in SelectRemotes
  /\ subs = <<>> /\ effSub = 0 /\ writes = <<>>
  /\ seedCalls = 0 /\ issued = 0 /\ failures = 0 /\ errors = {} /\ lastSnap = <<>>
  /\ lastOp = <<"none">>
  /\ rag = NoRag
  /\ peer = NoPeer

\* handleNodeSelect(nodeId), called by the click handler of a rendered GlyphNode
HandleNodeSelect(nodeId) ==
  /\ variant \in SelectSetVariants
  /\ phase = "mounted"
  /\ ~view.loading
  /\ nodeId \in SelectTargets(view.nodes)
  /\ selectedNodeIds' = ToggledSet(selectedNodeIds, nodeId)
  /\ Cardinality(selectedNodeIds') <= MaxSelected
  /\ lastOp' = <<"select", nodeId>>
  /\ UNCHANGED <<variant, rag, peer, phase, nodes, constraints, loading, authReady, db, userId,
                 ragIndex, selectedNodeId, view, clock, authv, storev, errors,
                 lastSnap>>

NextSelect ==
  \/ \E cfg \in {"ok", "missing", "throws"}, token \in BOOLEAN : Mount(cfg, token)
  \/ HandleAuth
  \/ \E ok \in BOOLEAN : SignInSettles(ok)
  \/ RenderSync
  \/ Unmount
  \/ \E s \in DOMAIN subs : OnSnapshot(s)
  \/ \E s \in DOMAIN subs : SnapshotError(s)
  \/ \E pos \in SpawnPositions, r \in 0..Len(AxiomaticIds) - 1, t \in Now :
       HandleSpawn(pos, r, t)
  \/ \E t \in Now : HandleRAGIngestion(t)
  \/ \E ok \in BOOLEAN : WriteSettles(ok)
  \/ \E nodeId \in SelectTargets(view.nodes) : HandleNodeSelect(nodeId)

SpecSelect == InitSelect /\ [][NextSelect]_vars

(***************************************************************************)
(* The derivation under snapshots (variant "derive"): the snapshot         *)
(* callback replaces the enumerated graph by a document's graph and the    *)
(* next render derives the lines again.                                    *)
(***************************************************************************)
\* the document with node id taken out of its node list, constraints kept
WithoutNode(doc, id) == [doc EXCEPT !.nodes = FilterNotId(@, id)]

\* the document with the position field taken out of its last node record
WithoutPosition(doc) ==
  [doc EXCEPT !.nodes = [@ EXCEPT ![Len(@)] =
     [f \in DOMAIN @ \ {"position"} |-> @[f]]]]

DeriveSnapshots ==
  {DefaultDoc, WithoutNode(DefaultDoc, "vgm-anchor"), WithoutPosition(DefaultDoc)}

\* the existing-document branch of the snapshot callback
SnapshotDerive(doc) ==
  /\ variant = "derive"
  /\ nodes' = SnapshotNodes(doc)
  /\ constraints' = SnapshotConstraints(doc)
  /\ lastSnap' = <<SnapOf(doc)>>
  /\ lastOp' = <<"snapshot", 0, TRUE>>
  /\ UNCHANGED <<variant, rag, peer, phase, loading, authReady, db, userId, ragIndex,
                 selectedNodeId, selectedNodeIds, view, clock, authv, storev, errors>>

NextDerive ==
  \/ RenderDerive
  \/ \E doc \in DeriveSnapshots : SnapshotDerive(doc)

SpecDerive == InitDerive /\ [][NextDerive]_vars

(***************************************************************************)
(* part_005: sendRAGQuery and exponentialBackoffFetch                      *)
(*                                                                         *)
(* rag.loading and rag.error are the fields of the ragState cell,          *)
(* rag.shown is the ragState.loading the last render captured (what the    *)
(* guard of sendRAGQuery reads in its closure).  sendRAGQuery is called    *)
(* from the click handler of a button: a click is a discrete event, and    *)
(* the root made by createRoot renders the state update of its handler     *)
(* before the next event, so the step of the handler also renders.  The    *)
(* updates made after an await are rendered by a later Render step.        *)
(* rag.retries and rag.delay are the parameters of the call of             *)
(* exponentialBackoffFetch; the defaults are 3 and 1000.                   *)
(***************************************************************************)
FetchDelays == {1000, 500}

RECURSIVE Pow2(_)
\* Math.pow(2, i)
Pow2(i) == IF i = 0 THEN 1 ELSE 2 * Pow2(i - 1)

\* delay * Math.pow(2, i)
BackoffDelay_constant(delay, i) == delay
BackoffDelay(delay, i) == delay * Pow2(i)

\* if (i === retries - 1) throw error
LastAttempt_never(i, retries) == FALSE
LastAttempt(i, retries) == i = retries - 1

\* ragState: { loading: false, error: false }, ragUrl set or emptied by the user
InitRag ==
  /\ variant = "p005"
  /\ phase = "mounted"
  /\ InitCells
  /\ view = Current
  /\ clock = 0
  /\ authUser = Null /\ authPending = FALSE /\ signIns = <<>>
  /\ remote = NoDoc
  /\ subs = <<>> /\ effSub = 0 /\ writes = <<>>
  /\ seedCalls = 0 /\ issued = 0 /\ failures = 0 /\ errors = {} /\ lastSnap = <<>>
  /\ lastOp = <<"none">>
  /\ peer = NoPeer
  /\ \E retries \in 0..MaxRetries, delay \in FetchDelays, url \in BOOLEAN :
       rag = [pc |-> "idle", loading |-> FALSE, error |-> FALSE, shown |-> FALSE,
              ragUrl |-> url, retries |-> retries, delay |-> delay,
              i |-> 0, attempts |-> 0, waits |-> <<>>, outcome |-> "none",
              queries |-> 0]

\* sendRAGQuery(queryPrompt) up to its first await: the guard, setRagState
\* ({ loading: true, error: false }) and the first pass of the loop of
\* exponentialBackoffFetch up to `await fetch(url, options)`; with retries = 0
\* the loop body never runs and the function returns undefined
SendRAGQuery ==
  /\ variant = "p005"
  /\ rag.queries < MaxQueries
  /\ IF ~rag.ragUrl \/ rag.shown
     THEN /\ lastOp' = <<"query-ignored">>
          /\ rag' = [rag EXCEPT !.queries = @ + 1]
     ELSE /\ lastOp' = <<"query">>
          /\ rag' = [rag EXCEPT
               !.queries = @ + 1,
               !.loading = TRUE, !.error = FALSE, !.shown = TRUE,
               !.i = 0, !.waits = <<>>,
               !.attempts = IF rag.retries > 0 THEN 1 ELSE 0,
               !.outcome = IF rag.retries > 0 THEN "none" ELSE "undefined",
               !.pc = IF rag.retries > 0 THEN "fetch" ELSE "json"]
  /\ UNCHANGED <<variant, peer, phase, cells, view, clock, authv, storev, errors, lastSnap>>

\* the fetch of attempt i settles: a response with ok status is returned; a
\* rejection or a response without ok status is thrown into the catch block,
\* which rethrows on the last attempt (into the catch block of sendRAGQuery)
\* and otherwise starts the timer
FetchSettles(ok) ==
  /\ variant = "p005"
  /\ rag.pc = "fetch"
  /\ lastOp' = <<"fetch", ok>>
  /\ rag' =
       IF ok
       THEN [rag EXCEPT !.outcome = "response", !.pc = "json"]
       ELSE IF LastAttempt(rag.i, rag.retries)
            THEN [rag EXCEPT !.outcome = "thrown", !.pc = "idle",
                             !.loading = FALSE, !.error = TRUE]
            ELSE [rag EXCEPT !.pc = "wait",
                    !.waits = Append(@, BackoffDelay(rag.delay, rag.i))]
  /\ UNCHANGED <<variant, peer, phase, cells, view, clock, authv, storev, errors, lastSnap>>

\* the timer of the catch block fires: i++, and the next pass calls fetch
\* if i < retries, else the loop ends and the function returns undefined
TimerFires ==
  /\ variant = "p005"
  /\ rag.pc = "wait"
  /\ lastOp' = <<"timer">>
  /\ rag' = IF rag.i + 1 < rag.retries
            THEN [rag EXCEPT !.i = @ + 1, !.attempts = @ + 1, !.pc = "fetch"]
            ELSE [rag EXCEPT !.i = @ + 1, !.outcome = "undefined", !.pc = "json"]
  /\ UNCHANGED <<variant, peer, phase, cells, view, clock, authv, storev, errors, lastSnap>>

JsonSettles_noError(ok) ==
  /\ variant = "p005"
  /\ rag.pc = "json"
  /\ rag.outcome = "undefined" => ~ok
  /\ lastOp' = <<"json", ok>>
  /\ rag' = [rag EXCEPT !.pc = "idle", !.loading = FALSE, !.error = FALSE]
  /\ UNCHANGED <<variant, peer, phase, cells, view, clock, authv, storev, errors, lastSnap>>

\* `await response.json()` settles; on undefined, response.json raises a
\* TypeError.  Success sets { loading: false, error: false }, the catch block
\* sets { loading: false, error: true }
JsonSettles(ok) ==
  /\ variant = "p005"
  /\ rag.pc = "json"
  /\ rag.outcome = "undefined" => ~ok
  /\ lastOp' = <<"json", ok>>
  /\ rag' = [rag EXCEPT !.pc = "idle", !.loading = FALSE, !.error = ~ok]
  /\ UNCHANGED <<variant, peer, phase, cells, view, clock, authv, storev, errors, lastSnap>>

\* the render of a ragState update made after an await
RenderRag ==
  /\ variant = "p005"
  /\ rag.shown # rag.loading
  /\ lastOp' = <<"render">>
  /\ rag' = [rag EXCEPT !.shown = rag.loading]
  /\ UNCHANGED <<variant, peer, phase, cells, view, clock, authv, storev, errors, lastSnap>>

NextRag ==
  \/ SendRAGQuery
  \/ \E ok \in BOOLEAN : FetchSettles(ok)
  \/ TimerFires
  \/ \E ok \in BOOLEAN : JsonSettles(ok)
  \/ RenderRag

SpecRag == InitRag /\ [][NextRag]_vars

\* every fetch, timer and response.json() settles, and React renders
SpecRagFair ==
  /\ SpecRag
  /\ WF_vars(\E ok \in BOOLEAN : FetchSettles(ok))
  /\ WF_vars(TimerFires)
  /\ WF_vars(\E ok \in BOOLEAN : JsonSettles(ok))
  /\ WF_vars(RenderRag)

(***************************************************************************)
(* C1: in every rendered state the line list has exactly one entry per     *)
(* constraint whose start id and end id are both ids of rendered nodes, in *)
(* the order of the constraint list, each entry carrying the positions of  *)
(* nodes of those ids and the constraint's colour; constraints with an     *)
(* unresolved endpoint are left out and the derivation raises no error.    *)
(***************************************************************************)
ResolvedIdx(N, C) ==
  {i \in 1..Len(C) : C[i][1] \in Ids(N) /\ C[i][2] \in Ids(N)}

Rank(S, i) == Cardinality({k \in S : k <= i})

C1_LinesAreResolvedConstraints ==
  LET N == view.nodes
      C == view.constraints
      L == view.linePoints
      R == ResolvedIdx(N, C)
  IN /\ L # "TypeError"
     /\ Len(L) = Cardinality(R)
     /\ \A i \in R :
          /\ L[Rank(R, i)].color = C[i][3]
          /\ \E a \in 1..Len(N), b \in 1..Len(N) :
               /\ N[a].id = C[i][1]
               /\ N[b].id = C[i][2]
               /\ L[Rank(R, i)].points = <<N[a].position, N[b].position>>

\* a render that kept one constraint and left out another, dangling one
C1_Witness ==
  /\ lastOp = <<"render">>
  /\ Len(view.constraints) = 2
  /\ Len(view.linePoints) = 1
  /\ ResolvedIdx(view.nodes, view.constraints) = {2}


(***************************************************************************)
(* C2: whenever the snapshot most recently handed to the callback showed   *)
(* an existing document, the local nodes and constraints are exactly that  *)
(* snapshot's nodes and constraints, a missing field read as the empty     *)
(* list; nothing of the earlier local graph survives.  Snapshots reach the *)
(* callback in arrival order (OnSnapshot takes the head of the queue), so  *)
(* the last one received wins.                                             *)
(***************************************************************************)
C2_SnapshotReplacesLocalGraph ==
  (lastSnap # <<>> /\ lastSnap[1].exists) =>
     /\ nodes = OrEmpty(Get(lastSnap[1].data, "nodes"))
     /\ constraints = OrEmpty(Get(lastSnap[1].data, "constraints"))

\* a snapshot of an existing document dropped a node that was on screen
C2_Witness ==
  /\ lastOp[1] = "snapshot"
  /\ lastSnap # <<>>
  /\ lastSnap[1].exists
  /\ \E i \in DOMAIN view.nodes : view.nodes[i].id \notin Ids(nodes)

(***************************************************************************)
(* C3: at the end of a snapshot callback that reported the document        *)
(* missing, the local nodes and constraints are those of                   *)
(* INITIAL_SYSTEM_STATE.                                                   *)
(***************************************************************************)
C3_MissingSurfacesDefault ==
  (lastOp[1] = "snapshot" /\ ~lastOp[3]) =>
     /\ nodes = INITIAL_SYSTEM_STATE.nodes
     /\ constraints = INITIAL_SYSTEM_STATE.constraints

(***************************************************************************)
(* C4: a client issues setDoc(docRef, INITIAL_SYSTEM_STATE) at most once   *)
(* in a run, however many missing-document callbacks, re-subscriptions or  *)
(* rejected seed writes occur.                                             *)
(***************************************************************************)
C4_SeedWrittenOnce == seedCalls <= 1

(***************************************************************************)
(* C5: a snapshot callback runs only for the subscription the current      *)
(* listener effect holds, while the component is mounted: once a           *)
(* subscription is released (cleanup on unmount or on a dependency change) *)
(* it stays released with nothing queued, no callback runs for it, and     *)
(* after unmount no step changes the local nodes or constraints.           *)
(* Releasing a subscription a second time changes nothing.                 *)
(***************************************************************************)
CallbackRan(s) ==
  /\ subs[s].q # <<>>
  /\ subs'[s].q = Tail(subs[s].q)
  /\ lastOp'[1] = "snapshot"
  /\ lastOp'[2] = s

C5_NoCallbackAfterUnsubscribe ==
  [][/\ \A s \in DOMAIN subs :
          /\ CallbackRan(s) => (subs[s].active /\ s = effSub /\ phase = "mounted")
          /\ ~subs[s].active => (subs'[s] = subs[s] /\ subs[s].q = <<>>)
          /\ Cleanup(Cleanup(subs, s), s) = Cleanup(subs, s)
     /\ phase = "unmounted" => (nodes' = nodes /\ constraints' = constraints)
    ]_vars

\* after unmount a rejected write changed the presented document, which the
\* released subscription was not told about
C5_Witness ==
  /\ phase = "unmounted"
  /\ subs # <<>>
  /\ ~subs[1].active
  /\ lastOp = <<"write", "spawn", FALSE>>
  /\ nodes # OrEmpty(Get(Cached(remote, writes), "nodes"))

(***************************************************************************)
(* C6: no two entries of the local node list, of a node list being written *)
(* to the document, or of the document's node list have the same id.       *)
(***************************************************************************)
NoDuplicateIds(N) == \A i, j \in DOMAIN N : N[i].id = N[j].id => i = j

C6_NoDuplicateIds ==
  /\ NoDuplicateIds(nodes)
  /\ \A k \in DOMAIN writes : NoDuplicateIds(writes[k].nodes)
  /\ NoDuplicateIds(OrEmpty(Get(remote, "nodes")))

C8_SelectingSelectedClears ==
  (lastOp[1] = "click" /\ lastOp[3] = lastOp[2]) => selectedNodeId = Null

(***************************************************************************)
(* C9: the id a spawn gives its node is the id of no node already in the   *)
(* graph: not of the local list, not of the document as stored, not of the *)
(* document as presented with the client's pending writes.                 *)
(***************************************************************************)
SpawnIssued == issued' = issued + 1 /\ lastOp'[1] = "spawn"

C9_SpawnIdIsFresh ==
  [][SpawnIssued =>
       lastOp'[2] \notin Ids(nodes) \cup Ids(OrEmpty(Get(remote, "nodes")))
                           \cup Ids(OrEmpty(Get(Cached(remote, writes), "nodes")))
    ]_vars

(***************************************************************************)
(* C10: the document a spawn writes is the graph as it stood, with exactly *)
(* one node appended (the new id, at the hit position) and exactly one     *)
(* constraint appended, which starts at the new node's id; no other node   *)
(* or constraint is added, removed or changed.  Stated for spawns whose id *)
(* is the id of no node of the graph.                                      *)
(***************************************************************************)
C10_SpawnAddsOneNodeOneConstraint ==
  [][SpawnIssued =>
       LET before == Cached(remote, writes)
           N == OrEmpty(Get(before, "nodes"))
           C == OrEmpty(Get(before, "constraints"))
           w == writes'[Len(writes')]
       IN lastOp'[2] \notin Ids(N) =>
          /\ Len(w.nodes) = Len(N) + 1
          /\ SubSeq(w.nodes, 1, Len(N)) = N
          /\ w.nodes[Len(w.nodes)].id = lastOp'[2]
          /\ w.nodes[Len(w.nodes)].position \in SpawnPositions
          /\ Len(w.constraints) = Len(C) + 1
          /\ SubSeq(w.constraints, 1, Len(C)) = C
          /\ w.constraints[Len(w.constraints)][1] = lastOp'[2]
    ]_vars


(***************************************************************************)
(* C11: a render of the default snapshot (its 5 nodes and 5 constraints)   *)
(* derives exactly 5 lines, one per constraint, between the positions of   *)
(* the constraint's two nodes; a render of the default snapshot without    *)
(* node vgm-anchor, all 5 constraints kept, derives exactly 3 lines: those *)
(* of the constraints that do not touch vgm-anchor.                        *)
(***************************************************************************)
DefaultLines ==
  << [points |-> <<<<20, 10, 0>>, <<-20, 10, 0>>>>,   color |-> "lime"],
     [points |-> <<<<20, 10, 0>>, <<0, 25, -15>>>>,   color |-> "cyan"],
     [points |-> <<<<-20, 10, 0>>, <<0, -25, 15>>>>,  color |-> "lime"],
     [points |-> <<<<0, 25, -15>>, <<30, -5, -5>>>>,  color |-> "orange"],
     [points |-> <<<<0, -25, 15>>, <<30, -5, -5>>>>,  color |-> "orange"] >>

C11_DefaultFiveThenThree ==
  /\ (view.nodes = INITIAL_SYSTEM_STATE.nodes
        /\ view.constraints = INITIAL_SYSTEM_STATE.constraints)
       => view.linePoints = DefaultLines
  /\ (view.nodes = FilterNotId(INITIAL_SYSTEM_STATE.nodes, "vgm-anchor")
        /\ view.constraints = INITIAL_SYSTEM_STATE.constraints)
       => view.linePoints = <<DefaultLines[1], DefaultLines[3], DefaultLines[5]>>

\* the snapshot without vgm-anchor has been applied and rendered
C11_Witness ==
  /\ lastOp = <<"render">>
  /\ lastSnap = <<SnapOf(WithoutNode(DefaultDoc, "vgm-anchor"))>>
  /\ Len(view.nodes) = 4
  /\ Len(view.constraints) = 5
  /\ Len(view.linePoints) = 3


(***************************************************************************)
(* C12: when the snapshot callback has run (on an existing document or on  *)
(* the missing-document fallback), the selection names only nodes of the   *)
(* node list the callback left: the selected id of the single-selection    *)
(* variants is null or the id of a node, and every id of the selection set *)
(* is the id of a node.                                                    *)
(***************************************************************************)
C12_SelectionNamesCurrentNodes ==
  (lastOp[1] = "snapshot" /\ phase = "mounted") =>
     /\ selectedNodeId # Null => selectedNodeId \in Ids(nodes)
     /\ selectedNodeIds \subseteq Ids(nodes)

(***************************************************************************)
(* C13: once the initialisation effect has found the backend unconfigured  *)
(* (empty config) or has caught an exception of the setup, the app is not  *)
(* loading and its graph is the default snapshot: it is never not loading  *)
(* with an empty graph.                                                    *)
(***************************************************************************)
SetupAbandoned ==
  errors \cap {"Firebase config is missing", "Firebase setup failed"} # {}

C13_UnconfiguredShowsDefault ==
  (phase = "mounted" /\ SetupAbandoned) =>
     /\ ~loading
     /\ nodes = INITIAL_SYSTEM_STATE.nodes
     /\ constraints = INITIAL_SYSTEM_STATE.constraints

(***************************************************************************)
(* C14: the anonymous sign-in that the auth-state callback attempts when   *)
(* no user is signed in does not hold the adapter back: when it has        *)
(* failed, authReady is set all the same, so that the listener effect      *)
(* subscribes and loading can become false.                                *)
(***************************************************************************)
AnonymousSignInFailed ==
  errors \cap {"Anonymous sign-in failed",
               "unhandled rejection: signInAnonymously"} # {}

C14_AnonymousFailureDoesNotBlock ==
  (phase = "mounted" /\ AnonymousSignInFailed) => authReady

(***************************************************************************)
(* C15: every failure of an operation of the adapter (anonymous or custom  *)
(* token sign-in, seed write, spawn or ingestion write, listener error)    *)
(* ends in a handler of the code: nothing is ever left as an unhandled     *)
(* promise rejection or as an error no callback of the code receives.      *)
(***************************************************************************)
UnhandledOutcomes ==
  {"unhandled rejection: signInAnonymously",
   "unhandled rejection: initializeState",
   "uncaught error in snapshot listener"}

C15_EveryFailureHandled == errors \cap UnhandledOutcomes = {}

(***************************************************************************)
(* C16: a step in which a subscription fails leaves the node list, the     *)
(* constraint list and the selection exactly as they were, as every other  *)
(* cell but loading; where the variant passes an error callback, the step  *)
(* sets loading to false.                                                  *)
(***************************************************************************)
C16_ErrorChangesOnlyLoading ==
  [][(failures' = failures + 1 /\ lastOp'[1] = "snapshot-error") =>
       /\ nodes' = nodes
       /\ constraints' = constraints
       /\ selectedNodeId' = selectedNodeId
       /\ selectedNodeIds' = selectedNodeIds
       /\ <<authReady, db, userId, ragIndex>>' = <<authReady, db, userId, ragIndex>>
       /\ (variant # "p004" /\ phase = "mounted") => loading' = FALSE]_vars

\* a listener has failed while a graph was on display and a node was selected
C16_Witness ==
  /\ lastOp[1] = "snapshot-error"
  /\ "Firestore snapshot failed" \in errors
  /\ Len(nodes) = Len(INITIAL_SYSTEM_STATE.nodes)
  /\ selectedNodeId \in Ids(nodes)
  /\ ~loading

(***************************************************************************)
(* C17: a record of a snapshot that lacks one of the required fields       *)
(* position, color and name never enters the local graph: every node of    *)
(* the node list has the three fields.                                     *)
(***************************************************************************)
WellFormed(n) == {"position", "color", "name"} \subseteq DOMAIN n

C17_MalformedRecordLeftOut ==
  \A i \in 1..Len(nodes) : WellFormed(nodes[i])

(***************************************************************************)
(* C18: a snapshot is applied in one step: the step of the snapshot        *)
(* callback on an existing document sets the node list and the constraint  *)
(* list to those of that one snapshot, no step that changes either list    *)
(* renders, and a render captures the two lists as the cells hold them     *)
(* between handlers.  So no rendered state pairs the node list of one      *)
(* snapshot with the constraint list of another.                           *)
(***************************************************************************)
C18_SnapshotAppliedAtomically ==
  [][/\ (nodes' # nodes \/ constraints' # constraints) => view' = view
     /\ view' # view =>
          /\ view'.nodes = nodes /\ view'.constraints = constraints
          /\ nodes' = nodes /\ constraints' = constraints
     /\ (/\ lastOp'[1] = "snapshot"
         /\ subs' # subs
         /\ phase = "mounted"
         /\ lastSnap'[1].exists) =>
          /\ nodes' = OrEmpty(Get(lastSnap'[1].data, "nodes"))
          /\ constraints' = OrEmpty(Get(lastSnap'[1].data, "constraints"))]_vars

\* the snapshot of a spawn has replaced the default graph and has been rendered
C18_Witness ==
  /\ lastOp = <<"render">>
  /\ lastSnap # <<>>
  /\ lastSnap[1].exists
  /\ Len(view.nodes) = Len(INITIAL_SYSTEM_STATE.nodes) + 1
  /\ Len(view.constraints) = Len(INITIAL_SYSTEM_STATE.constraints) + 1
  /\ view.nodes = OrEmpty(Get(lastSnap[1].data, "nodes"))
  /\ view.constraints = OrEmpty(Get(lastSnap[1].data, "constraints"))

(***************************************************************************)
(* C19: a spawn or an ingestion puts its new node into the local node list *)
(* in the step of the handler itself, whatever becomes of the remote       *)
(* write: when the handler has issued its write, the node list holds a     *)
(* node of the new id.                                                     *)
(***************************************************************************)
C19_MutationAppliedLocally ==
  lastOp[1] \in {"spawn", "rag"} => lastOp[2] \in Ids(nodes)

(***************************************************************************)
(* C20: the adapter only moves forward through its stages Disconnected (no *)
(* db handle), Authenticating (db handle set), Subscribed (a subscription  *)
(* has been created) and Receiving (a snapshot has been handed to the      *)
(* callback): the db handle and authReady are never reset, a subscription  *)
(* is created only in a state where the db handle is set and the           *)
(* auth-state callback has set authReady, and no snapshot is applied       *)
(* before a subscription exists.                                           *)
(***************************************************************************)
Stage ==
  CASE lastSnap # <<>> -> 3
    [] lastSnap = <<>> /\ subs # <<>> -> 2
    [] lastSnap = <<>> /\ subs = <<>> /\ db -> 1
    [] OTHER -> 0

C20_StagesOnlyForward ==
  [][/\ Stage' >= Stage
     /\ db => db'
     /\ authReady => authReady'
     /\ Len(subs') > Len(subs) => (db /\ authReady)
     /\ subs' # <<>> => (db' /\ authReady')
     /\ lastSnap' # <<>> => (subs' # <<>> /\ db' /\ authReady')]_vars

\* the first subscription of part_013 has handed its first snapshot to the callback
C20_Witness ==
  /\ variant = "p013"
  /\ lastOp = <<"snapshot", 1, TRUE>>
  /\ Stage = 3
  /\ db /\ authReady
  /\ nodes = INITIAL_SYSTEM_STATE.nodes

(***************************************************************************)
(* C21: at every moment at most one snapshot subscription is active, the   *)
(* active one is the one the current listener effect holds, and after      *)
(* unmount none is active: a subscription is released before the next one  *)
(* is created and when the component is torn down.                         *)
(***************************************************************************)
ActiveSubs == {s \in DOMAIN subs : subs[s].active}

C21_AtMostOneSubscription ==
  /\ Cardinality(ActiveSubs) <= 1
  /\ ActiveSubs \subseteq {effSub}
  /\ phase = "unmounted" => ActiveSubs = {}

\* part_004 has released its first subscription and holds the one it acquired
\* again after selectedNodeId changed
C21_Witness ==
  /\ variant = "p004"
  /\ phase = "mounted"
  /\ Len(subs) = 2
  /\ ~subs[1].active
  /\ ActiveSubs = {2}
  /\ subs[2].sel # Null

(***************************************************************************)
(* C22: a render, which derives the lines, only reads: it leaves the node  *)
(* list, the constraint list and the selection unchanged, so a constraint  *)
(* with a missing endpoint stays in the constraint list; and the lines it  *)
(* derives are one per constraint whose two nodes are in the node list     *)
(* with a position now, whatever an earlier render left out.               *)
(***************************************************************************)
C22_DerivingOnlyReads ==
  [][view' # view =>
       /\ nodes' = nodes
       /\ constraints' = constraints
       /\ selectedNodeId' = selectedNodeId
       /\ selectedNodeIds' = selectedNodeIds
       /\ view'.constraints = constraints
       /\ (\A i \in 1..Len(nodes) : "position" \in DOMAIN nodes[i]) =>
            Len(view'.linePoints) = Cardinality(ResolvedIdx(nodes, constraints))]_vars

\* two lines were left out while vgm-anchor was absent; the constraint list
\* still holds their constraints and a later snapshot with the node has arrived
C22_Witness ==
  /\ lastOp = <<"snapshot", 0, TRUE>>
  /\ view.nodes = FilterNotId(INITIAL_SYSTEM_STATE.nodes, "vgm-anchor")
  /\ view.constraints = INITIAL_SYSTEM_STATE.constraints
  /\ Len(view.linePoints) = 3
  /\ nodes = INITIAL_SYSTEM_STATE.nodes
  /\ constraints = INITIAL_SYSTEM_STATE.constraints

(***************************************************************************)
(* C23: a select or deselect request for an id that is not the id of a     *)
(* node of the current node list leaves the selection unchanged: every     *)
(* step that changes the selection set is a request for the id of a node   *)
(* of the node list.                                                       *)
(***************************************************************************)
C23_UnknownIdLeavesSelection ==
  [][selectedNodeIds' # selectedNodeIds => lastOp'[2] \in Ids(nodes)]_vars

(***************************************************************************)
(* C24: a call of exponentialBackoffFetch(url, options, retries, delay)    *)
(* makes at most `retries` fetch attempts; when it has returned a response *)
(* that response is of its last attempt and every attempt before it failed *)
(* and was followed by a wait; the wait after failed attempt i (from 0) is *)
(* delay * 2^i and there is none after the last attempt; when it has       *)
(* thrown, all `retries` attempts were made and failed.                    *)
(***************************************************************************)
C24_BackoffFetchBounded ==
  /\ rag.attempts <= rag.retries
  /\ Len(rag.waits) <= rag.attempts
  /\ \A k \in 1..Len(rag.waits) : rag.waits[k] = rag.delay * 2^(k - 1)
  /\ rag.retries > 0 => Len(rag.waits) <= rag.retries - 1
  /\ rag.outcome = "response" => rag.attempts = Len(rag.waits) + 1
  /\ rag.outcome = "thrown" =>
       /\ rag.attempts = rag.retries
       /\ Len(rag.waits) = rag.retries - 1
  /\ rag.outcome = "undefined" => rag.retries = 0

\* three attempts have failed, with waits of 1000 ms and 2000 ms between them,
\* and the error of the third has been rethrown
C24_Witness ==
  /\ rag.outcome = "thrown"
  /\ rag.retries = 3
  /\ rag.attempts = 3
  /\ rag.waits = <<1000, 2000>>

(***************************************************************************)
(* C25: when every fetch, timer and response.json() settles, a query that  *)
(* has started (ragState.loading true) eventually ends with                *)
(* ragState.loading false; it ends with error false after a response that  *)
(* could be read, and with error true when the retries are exhausted or    *)
(* the response cannot be read; and a query starts only while              *)
(* ragState.loading is false and no other query is in progress.            *)
(***************************************************************************)
QueryStarts == rag'.queries = rag.queries + 1 /\ lastOp' = <<"query">>

C25_QueryEnds ==
  /\ rag.loading ~> ~rag.loading
  /\ [](lastOp = <<"json", TRUE>> => (~rag.loading /\ ~rag.error))
  /\ [](lastOp = <<"json", FALSE>> => (~rag.loading /\ rag.error))
  /\ []((lastOp = <<"fetch", FALSE>> /\ rag.outcome = "thrown") =>
          (~rag.loading /\ rag.error))
  /\ [](rag.loading <=> rag.pc # "idle")
  /\ [][QueryStarts => (~rag.loading /\ rag.pc = "idle" /\ rag.ragUrl)]_vars

\* the second query of a run has ended with a response read after one retry
C25_Witness ==
  /\ rag.queries = 2
  /\ lastOp = <<"json", TRUE>>
  /\ Len(rag.waits) = 1
  /\ ~rag.loading /\ ~rag.error

(***************************************************************************)
(* C26: when the mutations of one client all succeed, none of them undoes  *)
(* an earlier one: the step in which the server accepts a spawn or an      *)
(* ingestion write keeps every node and every constraint the document     *)
(* already held, so that after two accepted mutations the document holds   *)
(* both new nodes and both sets of new constraints.  Stated for mutations  *)
(* whose new id is the id of no node of the document.                      *)
(***************************************************************************)
Range(f) == {f[i] : i \in DOMAIN f}

MutationAccepted ==
  /\ variant \in SpawnVariants
  /\ writes # <<>>
  /\ writes' = Tail(writes)
  /\ failures = 0
  /\ lastOp' \in {<<"write", "spawn", TRUE>>, <<"write", "rag", TRUE>>}
  /\ LET w == Head(writes)
     IN w.nodes[Len(w.nodes)].id \notin Ids(OrEmpty(Get(remote, "nodes")))

C26_BothMutationsKept ==
  [][MutationAccepted =>
       /\ Ids(OrEmpty(Get(remote, "nodes"))) \subseteq
            Ids(OrEmpty(Get(remote', "nodes")))
       /\ Range(OrEmpty(Get(remote, "constraints"))) \subseteq
            Range(OrEmpty(Get(remote', "constraints")))]_vars


(***************************************************************************)
(* C27  With two clients sharing the remote document, a write of one       *)
(* client that the server accepts removes no node the other client wrote:  *)
(* the second client's accepted write (seed or spawn) keeps every node of  *)
(* the document that is neither a default node nor one it spawned itself,  *)
(* and the first client's accepted write keeps every node the second       *)
(* client spawned.                                                         *)
(***************************************************************************)
RemoteIds(doc) == Ids(OrEmpty(Get(doc, "nodes")))

PeerAccepted == peer.pc = "listening" /\ peer.writes # <<>> /\ peer'.writes = Tail(peer.writes)

ClientAccepted ==
  /\ peer.pc = "listening"
  /\ writes # <<>>
  /\ writes' = Tail(writes)
  /\ lastOp' \in {<<"write", "spawn", TRUE>>, <<"write", "seed", TRUE>>}

C27_OtherClientsNodesKept ==
  /\ [][PeerAccepted =>
          (RemoteIds(remote) \ (peer.mine \cup Range(AxiomaticIds))) \subseteq RemoteIds(remote')]_vars
  /\ [][ClientAccepted => (RemoteIds(remote) \cap peer.mine) \subseteq RemoteIds(remote')]_vars


(***************************************************************************)
(* C28  In the step in which a snapshot brings a spawned node into the     *)
(* local graph, every constraint that starts at the spawned node ends at   *)
(* the id of a node of the new node list, so that it resolves to a line.   *)
(***************************************************************************)
SpawnedInto(N, N2) ==
  {N2[i].id : i \in {j \in DOMAIN N2 : Get(N2[j], "type") = "HIL-Input" /\ N2[j].id \notin Ids(N)}}

C28_SpawnAnchorResolves ==
  [][(variant \in SpawnVariants /\ lastOp'[1] = "snapshot") =>
       \A id \in SpawnedInto(nodes, nodes') :
         \A k \in DOMAIN constraints' :
           constraints'[k][1] = id => constraints'[k][2] \in Ids(nodes')]_vars


(***************************************************************************)
(* C29  Ingestion is idempotent per artifact: the local constraint list    *)
(* and the constraint list of the remote document never hold the same      *)
(* (start, end, colour) triple of an ingested artifact twice, and their    *)
(* node lists never hold two nodes with the id of an artifact.             *)
(***************************************************************************)
ArtifactIds == {Slug(RAG_ARTIFACTS[a].name) : a \in DOMAIN RAG_ARTIFACTS}

NoRepeatedArtifact(N, C) ==
  /\ \A i, j \in DOMAIN N : (N[i].id \in ArtifactIds /\ N[i].id = N[j].id) => i = j
  /\ \A i, j \in DOMAIN C : (C[i][1] \in ArtifactIds /\ C[i] = C[j]) => i = j

C29_IngestionIdempotent ==
  variant \in RagVariants =>
    /\ NoRepeatedArtifact(nodes, constraints)
    /\ NoRepeatedArtifact(OrEmpty(Get(remote, "nodes")), OrEmpty(Get(remote, "constraints")))


(***************************************************************************)
(* C30  The loading flag is live: once the mounted app has nothing left to *)
(* be delivered (no auth notification, no sign-in, no snapshot, no write   *)
(* and no render pending), loading is false, also when a sign-in failed.   *)
(* Stated for part_013 and part_008.                                       *)
(***************************************************************************)
NothingPending ==
  /\ phase = "mounted"
  /\ ~authPending
  /\ signIns = <<>>
  /\ writes = <<>>
  /\ \A s \in DOMAIN subs : subs[s].q = <<>>
  /\ view = Current

C30_LoadingEnds ==
  (variant \in {"p013", "p008"} /\ NothingPending) => ~loading

=============================================================================
